---- MODULE Spec2Model ----
(***************************************************************************)
(* The Account REST service of service/routes.py: the HTTP route layer     *)
(* (create, list, read, update, delete) over the Account entity model and  *)
(* its relational store.                                                   *)
(*                                                                         *)
(* The route handlers are translated from service/routes.py.  The Account  *)
(* entity model (service/models.py), the error handlers                    *)
(* (service/common/error_handlers.py) and the calendar of the standard     *)
(* library are not part of the sources at hand; they are modelled from the *)
(* specification's description of them.                                    *)
(***************************************************************************)
EXTENDS Integers, Sequences, FiniteSets, TLC

VARIABLES
    db,         \* the store: [rows: the Account table in insertion order, seq: the last id handed out]
    request,    \* the request answered last
    response,   \* the response given to it
    before,     \* history: what the exchange before the last one did to the account the last one names
    posted,     \* history: the ids of the 201 responses, in the order they were given
    shown,      \* history: id -> the body of the last 201/200 response to a POST/PUT of that id, until a DELETE of it
    deleted,    \* history: the posted ids that a DELETE named since
    inflight    \* concurrent clients: client -> [pc, request, account], the handler it is in

vars == <<db, request, response, before, posted, shown, deleted, inflight>>

----------------------------------------------------------------------------
(* Bounds of the model. *)

\* POST requests that reach create(): the id sequence stops there
MaxAccounts == 2

----------------------------------------------------------------------------
(* HTTP status codes (service.common.status). *)

HTTP_200_OK == 200
HTTP_201_CREATED == 201
HTTP_204_NO_CONTENT == 204
HTTP_400_BAD_REQUEST == 400
HTTP_404_NOT_FOUND == 404
HTTP_415_UNSUPPORTED_MEDIA_TYPE == 415
HTTP_500_INTERNAL_SERVER_ERROR == 500

----------------------------------------------------------------------------
(* Dates.  A date value is [year, month, day]; its ISO-8601 text is a      *)
(* sequence of ten characters, "YYYY-MM-DD".                               *)

DigitChar == <<"0", "1", "2", "3", "4", "5", "6", "7", "8", "9">>

DigitVal(c) == (CHOOSE n \in 1..10 : DigitChar[n] = c) - 1

IsDigit(c) == \E n \in 1..10 : DigitChar[n] = c

IsLeap(y) == (y % 4 = 0) /\ ((y % 100 # 0) \/ (y % 400 = 0))

DaysInMonth(y, m) ==
    IF m = 2 THEN (IF IsLeap(y) THEN 29 ELSE 28)
    ELSE IF m \in {4, 6, 9, 11} THEN 30 ELSE 31

IsDate(d) ==
    /\ d.year \in 1..9999
    /\ d.month \in 1..12
    /\ d.day \in 1..DaysInMonth(d.year, d.month)

\* the character of the last decimal digit of n
Digit(n) == DigitChar[(n % 10) + 1]

\* date.isoformat(): zero-padded year, month and day joined by "-"
isoformat(d) ==
    << Digit(d.year \div 1000), Digit(d.year \div 100), Digit(d.year \div 10), Digit(d.year), "-",
       Digit(d.month \div 10), Digit(d.month), "-",
       Digit(d.day \div 10), Digit(d.day) >>

\* the texts date.fromisoformat() accepts
IsIsoDate(t) ==
    /\ Len(t) = 10
    /\ t[5] = "-" /\ t[8] = "-"
    /\ \A i \in {1, 2, 3, 4, 6, 7, 9, 10} : IsDigit(t[i])
    /\ IsDate([year |-> 1000 * DigitVal(t[1]) + 100 * DigitVal(t[2]) + 10 * DigitVal(t[3]) + DigitVal(t[4]),
               month |-> 10 * DigitVal(t[6]) + DigitVal(t[7]),
               day |-> 10 * DigitVal(t[9]) + DigitVal(t[10])])

\* date.fromisoformat(): the digits read back as numbers
fromisoformat(t) ==
    [year |-> 1000 * DigitVal(t[1]) + 100 * DigitVal(t[2]) + 10 * DigitVal(t[3]) + DigitVal(t[4]),
     month |-> 10 * DigitVal(t[6]) + DigitVal(t[7]),
     day |-> 10 * DigitVal(t[9]) + DigitVal(t[10])]

\* date.today(): the day the service is followed on
today == [year |-> 2024, month |-> 2, day |-> 28]

----------------------------------------------------------------------------
(* JSON values.  A parsed request body is [type, members]: an object's     *)
(* members are a mapping from keys to values; an array or null has none.   *)

JsonObject(members) == [members |-> members, type |-> "object"]

JsonArray == [members |-> <<>>, type |-> "array"]

JsonNull == [members |-> <<>>, type |-> "null"]

\* mapping m with key k set to v
With(m, k, v) == [x \in (DOMAIN m) \cup {k} |-> IF x = k THEN v ELSE m[x]]

\* mapping m without key k
Without(m, k) == [x \in (DOMAIN m) \ {k} |-> m[x]]

----------------------------------------------------------------------------
(* The Account entity model (service/models.py).                           *)

RequiredFields == <<"name", "email", "address", "phone_number">>

\* Account(): an in-memory Account none of whose attributes is set yet
Account == [x \in {} |-> ""]

\* the required keys of data are assigned in order; the first missing one
\* stops the assignment with a KeyError, the attributes assigned before it kept
RECURSIVE AssignRequired(_, _, _)
AssignRequired(account, members, i) ==
    IF i > Len(RequiredFields) THEN [account |-> account, ok |-> TRUE, missing |-> ""]
    ELSE IF RequiredFields[i] \notin DOMAIN members
         THEN [account |-> account, ok |-> FALSE, missing |-> RequiredFields[i]]
         ELSE AssignRequired(With(account, RequiredFields[i], members[RequiredFields[i]]),
                             members, i + 1)

\* account.deserialize(data): [ok, account, error].  An "id" key of data is
\* never read.  date_joined is the supplied date, or today's when none is.
deserialize(account, data, now) ==
    IF data.type # "object"
    THEN [account |-> account,
          ok |-> FALSE,
          error |-> "Invalid Account: body of request contained bad or no data"]
    ELSE LET a == AssignRequired(account, data.members, 1) IN
         IF ~a.ok
         THEN [account |-> a.account,
               ok |-> FALSE,
               error |-> "Invalid Account: missing " \o a.missing]
         ELSE [account |-> With(a.account, "date_joined",
                                IF "date_joined" \in DOMAIN data.members
                                THEN fromisoformat(data.members["date_joined"])
                                ELSE now),
               ok |-> TRUE,
               error |-> ""]

\* account.serialize(): all six fields, date_joined as ISO-8601 text
serialize(account) ==
    [id |-> account["id"],
     name |-> account["name"],
     email |-> account["email"],
     address |-> account["address"],
     phone_number |-> account["phone_number"],
     date_joined |-> isoformat(account["date_joined"])]

\* the ids of the stored rows
Ids(store) == {store.rows[i]["id"] : i \in 1..Len(store.rows)}

\* Account.find(id): the stored Account, or nothing
find(store, id) ==
    IF id \in Ids(store)
    THEN <<store.rows[CHOOSE i \in 1..Len(store.rows) : store.rows[i]["id"] = id]>>
    ELSE <<>>

\* Account.all(): every stored Account, in insertion order
all(store) == store.rows

\* account.create(): the store hands out the next id and inserts the row
create(store, account) ==
    LET row == With(account, "id", store.seq + 1) IN
    [db |-> [rows |-> Append(store.rows, row), seq |-> store.seq + 1], account |-> row]

\* account.update(): the in-memory values over the stored row of the same
\* id; fails at the store when there is no such row
update(store, account) ==
    IF account["id"] \in Ids(store)
    THEN [db |-> [store EXCEPT !.rows = [i \in 1..Len(store.rows) |->
                     IF store.rows[i]["id"] = account["id"] THEN account ELSE store.rows[i]]],
          ok |-> TRUE]
    ELSE [db |-> store, ok |-> FALSE]

\* account.delete(): the row of this id leaves the store
delete(store, account) ==
    [store EXCEPT !.rows = SelectSeq(store.rows, LAMBDA r : r["id"] # account["id"])]

----------------------------------------------------------------------------
(* Responses of the framework and of the error handlers.                   *)

\* abort(code, message): the JSON error body of the error handlers
abort(code, error, message) ==
    [status |-> code, body |-> [error |-> error, message |-> message, status |-> code]]

\* the handler of DataValidationError: 400 with the error's message
request_validation_error(error) == abort(HTTP_400_BAD_REQUEST, "Bad Request", error)

\* an exception no handler catches: the framework's generic server error
internal_server_error == abort(HTTP_500_INTERNAL_SERVER_ERROR, "Internal Server Error", "")

----------------------------------------------------------------------------
(* The HTTP route layer (service/routes.py).  A handler is a function of   *)
(* the store and the request: [response, db].                              *)

JSON == "application/json"

\* a header mapping holding only Content-Type
ContentType(value) == [h \in {"Content-Type"} |-> value]

\* check_content_type letting a request without a Content-Type through
check_content_type_lenient(headers, media_type) ==
    \/ "Content-Type" \notin DOMAIN headers
    \/ headers["Content-Type"] = ""
    \/ headers["Content-Type"] = media_type

\* check_content_type(media_type): TRUE when the handler goes on, FALSE when
\* it aborts with 415
check_content_type(headers, media_type) ==
    /\ "Content-Type" \in DOMAIN headers
    /\ headers["Content-Type"] # ""
    /\ headers["Content-Type"] = media_type

\* create_accounts answering 201 for an Account whose insert is never committed
create_accounts_uncommitted(store, now, req) ==
    IF ~check_content_type(req.headers, JSON)
    THEN [db |-> store,
          response |-> abort(HTTP_415_UNSUPPORTED_MEDIA_TYPE, "Unsupported Media Type",
                             "Content-Type must be " \o JSON)]
    ELSE LET d == deserialize(Account, req.json, now) IN
         IF ~d.ok
         THEN [db |-> store, response |-> request_validation_error(d.error)]
         ELSE LET c == create(store, d.account) IN
              [db |-> store,
               response |-> [status |-> HTTP_201_CREATED, body |-> serialize(c.account),
                             location |-> "/"]]

\* create_accounts drawing the id from the store before the body is deserialized
create_accounts_reserving(store, now, req) ==
    IF ~check_content_type(req.headers, JSON)
    THEN [db |-> store,
          response |-> abort(HTTP_415_UNSUPPORTED_MEDIA_TYPE, "Unsupported Media Type",
                             "Content-Type must be " \o JSON)]
    ELSE LET d == deserialize(Account, req.json, now) IN
         IF ~d.ok
         THEN [db |-> [store EXCEPT !.seq = store.seq + 1],
               response |-> request_validation_error(d.error)]
         ELSE LET c == create(store, d.account) IN
              [db |-> c.db,
               response |-> [status |-> HTTP_201_CREATED, body |-> serialize(c.account),
                             location |-> "/"]]

\* create_accounts answering with the id of the payload when it holds one
create_accounts_echo_id(store, now, req) ==
    IF ~check_content_type(req.headers, JSON)
    THEN [db |-> store,
          response |-> abort(HTTP_415_UNSUPPORTED_MEDIA_TYPE, "Unsupported Media Type",
                             "Content-Type must be " \o JSON)]
    ELSE LET d == deserialize(Account, req.json, now) IN
         IF ~d.ok
         THEN [db |-> store, response |-> request_validation_error(d.error)]
         ELSE LET c == create(store, d.account) IN
              [db |-> c.db,
               response |-> [status |-> HTTP_201_CREATED,
                             body |-> IF "id" \in DOMAIN req.json.members
                                      THEN [serialize(c.account) EXCEPT !["id"] = req.json.members["id"]]
                                      ELSE serialize(c.account),
                             location |-> "/"]]

\* POST /accounts
create_accounts(store, now, req) ==
    IF ~check_content_type(req.headers, JSON)
    THEN [db |-> store,
          response |-> abort(HTTP_415_UNSUPPORTED_MEDIA_TYPE, "Unsupported Media Type",
                             "Content-Type must be " \o JSON)]
    ELSE LET d == deserialize(Account, req.json, now) IN
         IF ~d.ok
         THEN [db |-> store, response |-> request_validation_error(d.error)]
         ELSE LET c == create(store, d.account) IN
              [db |-> c.db,
               response |-> [status |-> HTTP_201_CREATED, body |-> serialize(c.account),
                             location |-> "/"]]

\* list_accounts answering newest first
list_accounts_newest_first(store) ==
    LET accounts == all(store) IN
    [db |-> store,
     response |-> [status |-> HTTP_200_OK,
                   body |-> [i \in 1..Len(accounts) |-> serialize(accounts[Len(accounts) + 1 - i])]]]

\* GET /accounts
list_accounts(store) ==
    LET accounts == all(store) IN
    [db |-> store,
     response |-> [status |-> HTTP_200_OK,
                   body |-> [i \in 1..Len(accounts) |-> serialize(accounts[i])]]]

\* GET /accounts/<account_id>
get_account(store, account_id) ==
    LET account == find(store, account_id) IN
    IF account = <<>>
    THEN [db |-> store,
          response |-> abort(HTTP_404_NOT_FOUND, "Not Found",
                             "Account with id [" \o ToString(account_id) \o "] could not be found.")]
    ELSE [db |-> store, response |-> [status |-> HTTP_200_OK, body |-> serialize(account[1])]]

\* PUT /accounts/<account_id>, the lookup: [found, account, response]
update_account_find(store, account_id) ==
    LET account == find(store, account_id) IN
    IF account = <<>>
    THEN [response |-> abort(HTTP_404_NOT_FOUND, "Not Found",
                             "Account with id " \o ToString(account_id) \o " not found"),
          account |-> Account,
          found |-> FALSE]
    ELSE [response |-> [status |-> HTTP_200_OK], account |-> account[1], found |-> TRUE]

\* update_account_save answering 200 although update() failed
update_account_save_swallowing(store, account, json, now) ==
    LET d == deserialize(account, json, now) IN
    IF ~d.ok
    THEN [db |-> store, response |-> request_validation_error(d.error)]
    ELSE [db |-> update(store, d.account).db,
          response |-> [status |-> HTTP_200_OK, body |-> serialize(d.account)]]

\* PUT /accounts/<account_id>, after the lookup: deserialize over the
\* Account found, then update()
update_account_save(store, account, json, now) ==
    LET d == deserialize(account, json, now) IN
    IF ~d.ok
    THEN [db |-> store, response |-> request_validation_error(d.error)]
    ELSE LET u == update(store, d.account) IN
         IF ~u.ok
         THEN [db |-> store, response |-> internal_server_error]
         ELSE [db |-> u.db,
               response |-> [status |-> HTTP_200_OK, body |-> serialize(d.account)]]

\* update_account without account.update(): the new values are answered, not stored
update_account_unsaved(store, now, account_id, json) ==
    LET f == update_account_find(store, account_id) IN
    IF ~f.found
    THEN [db |-> store, response |-> f.response]
    ELSE [db |-> store, response |-> update_account_save(store, f.account, json, now).response]

\* update_account deserializing the body before it looks the Account up
update_account_parse_first(store, now, account_id, json) ==
    LET d == deserialize(Account, json, now)
        f == update_account_find(store, account_id) IN
    IF ~d.ok
    THEN [db |-> store, response |-> request_validation_error(d.error)]
    ELSE IF ~f.found
         THEN [db |-> store, response |-> f.response]
         ELSE update_account_save(store, f.account, json, now)

\* update_account storing whatever deserialize assigned before it failed
update_account_flushing(store, now, account_id, json) ==
    LET f == update_account_find(store, account_id) IN
    IF ~f.found
    THEN [db |-> store, response |-> f.response]
    ELSE LET d == deserialize(f.account, json, now) IN
         IF ~d.ok
         THEN [db |-> update(store, d.account).db, response |-> request_validation_error(d.error)]
         ELSE update_account_save(store, f.account, json, now)

\* PUT /accounts/<account_id>
update_account(store, now, account_id, json) ==
    LET f == update_account_find(store, account_id) IN
    IF ~f.found
    THEN [db |-> store, response |-> f.response]
    ELSE update_account_save(store, f.account, json, now)

\* DELETE /accounts/<account_id>, the lookup: [found, account, response]
delete_account_find(store, account_id) ==
    LET account == find(store, account_id) IN
    IF account = <<>>
    THEN [response |-> [status |-> HTTP_204_NO_CONTENT, body |-> ""],
          account |-> Account,
          found |-> FALSE]
    ELSE [response |-> [status |-> HTTP_204_NO_CONTENT], account |-> account[1], found |-> TRUE]

\* DELETE /accounts/<account_id>, after the lookup: delete()
delete_account_delete(store, account) ==
    [db |-> delete(store, account), response |-> [status |-> HTTP_204_NO_CONTENT, body |-> ""]]

\* delete_account answering 404 for an id that is not stored
delete_account_strict(store, account_id) ==
    LET f == delete_account_find(store, account_id) IN
    IF ~f.found
    THEN [db |-> store,
          response |-> abort(HTTP_404_NOT_FOUND, "Not Found",
                             "Account with id " \o ToString(account_id) \o " not found")]
    ELSE delete_account_delete(store, f.account)

\* DELETE /accounts/<account_id>
delete_account(store, account_id) ==
    LET f == delete_account_find(store, account_id) IN
    IF ~f.found
    THEN [db |-> store, response |-> f.response]
    ELSE delete_account_delete(store, f.account)

----------------------------------------------------------------------------
(* The requests the clients send.                                          *)

Ann == [name |-> "Ann", email |-> "ann@example.com", address |-> "1 Elm St",
        phone_number |-> "555-0001"]

Bob == [name |-> "Bob", email |-> "bob@example.com", address |-> "2 Oak Ave",
        phone_number |-> "555-0002"]

People == {Ann, Bob}

\* "2023-12-31"
NewYearsEve == <<"2", "0", "2", "3", "-", "1", "2", "-", "3", "1">>

\* "2024-02-29"
LeapDay == <<"2", "0", "2", "4", "-", "0", "2", "-", "2", "9">>

\* the ids a path or a body names: those the store can hand out, and one more
PathIds == 1..(MaxAccounts + 1)

\* objects holding the four required keys; date_joined and id are optional
ValidMembers ==
    People
      \cup {With(Ann, "date_joined", NewYearsEve), With(Bob, "date_joined", LeapDay)}
      \cup {With(Bob, "id", 1)}

\* objects lacking a required key
InvalidMembers ==
    {Without(Bob, f) : f \in {RequiredFields[i] : i \in 1..Len(RequiredFields)}}
      \cup {[name |-> "not enough data"]}

\* the bodies deserialize accepts
IsValidBody(data) ==
    /\ data.type = "object"
    /\ \A i \in 1..Len(RequiredFields) : RequiredFields[i] \in DOMAIN data.members
    /\ "date_joined" \in DOMAIN data.members => IsIsoDate(data.members["date_joined"])

ValidBodies == {JsonObject(m) : m \in ValidMembers}

InvalidBodies == {JsonObject(m) : m \in InvalidMembers} \cup {JsonArray, JsonNull}

Bodies == ValidBodies \cup InvalidBodies

\* the bodies sent under a Content-Type other than the expected one
GatedBodies == {JsonObject(Ann), JsonObject([name |-> "not enough data"])}

\* no Content-Type at all, an empty one, the expected one, and others
HeaderSets ==
    {[h \in {} |-> ""]}
      \cup {ContentType(v) : v \in {"", JSON, "text/html", "application/json; charset=utf-8"}}

----------------------------------------------------------------------------
(* History: what an exchange did, and the bookkeeping of the responses.    *)

NoRequest == [method |-> "NONE"]

NoResponse == [status |-> 0]

\* what the exchange (req, resp) did, and to which account: [kind, id]
Outcome(req, resp) ==
    IF req.method = "POST" /\ resp.status = HTTP_201_CREATED
      THEN [id |-> resp.body["id"], kind |-> "created"]
    ELSE IF req.method = "PUT" /\ resp.status = HTTP_200_OK
      THEN [id |-> req.account_id, kind |-> "updated"]
    ELSE IF req.method = "PUT"
      THEN [id |-> req.account_id, kind |-> "refused"]
    ELSE IF req.method = "DELETE"
      THEN [id |-> req.account_id, kind |-> "deleted"]
    ELSE [id |-> 0, kind |-> "other"]

\* what the exchange (req, resp) did to the account that the request next names
Before(req, resp, next) ==
    IF next.method \in {"GET", "PUT", "DELETE"} /\ Outcome(req, resp).id = next.account_id
    THEN Outcome(req, resp).kind ELSE "other"

Range(seq) == {seq[i] : i \in 1..Len(seq)}

\* the bookkeeping after the exchange (req, resp)
Posted(req, resp) ==
    IF req.method = "POST" /\ resp.status = HTTP_201_CREATED
    THEN Append(posted, resp.body["id"]) ELSE posted

Shown(req, resp) ==
    IF req.method = "POST" /\ resp.status = HTTP_201_CREATED
      THEN With(shown, resp.body["id"], resp.body)
    ELSE IF req.method = "PUT" /\ resp.status = HTTP_200_OK
      THEN With(shown, req.account_id, resp.body)
    ELSE IF req.method = "DELETE"
      THEN Without(shown, req.account_id)
    ELSE shown

Deleted(req, resp) ==
    IF req.method = "DELETE" /\ req.account_id \in Range(posted)
    THEN deleted \cup {req.account_id} ELSE deleted

----------------------------------------------------------------------------
(* Sequential clients: one request at a time, each handled to its end.     *)

Clients == {"c1", "c2"}

Idle == [pc |-> "idle"]

Init ==
    /\ db = [rows |-> <<>>, seq |-> 0]
    /\ request = NoRequest
    /\ response = NoResponse
    /\ before = "other"
    /\ posted = <<>>
    /\ shown = [x \in {} |-> 0]
    /\ deleted = {}
    /\ inflight = [c \in Clients |-> Idle]

\* the exchange of req: the handler's result becomes the response and the store
Exchange(req, out) ==
    /\ out.db.seq <= MaxAccounts
    /\ db' = out.db
    /\ request' = req
    /\ response' = out.response
    /\ before' = Before(request, response, req)
    /\ posted' = Posted(req, out.response)
    /\ shown' = Shown(req, out.response)
    /\ deleted' = Deleted(req, out.response)
    /\ UNCHANGED inflight

CreateAccounts ==
    \E h \in HeaderSets : \E b \in (IF h = ContentType(JSON) THEN Bodies ELSE GatedBodies) :
        \E req \in {[headers |-> h, json |-> b, method |-> "POST"]} :
            \E out \in {create_accounts(db, today, req)} : Exchange(req, out)

ListAccounts ==
    \E out \in {list_accounts(db)} : Exchange([method |-> "LIST"], out)

GetAccount ==
    \E id \in PathIds :
        \E out \in {get_account(db, id)} :
            Exchange([account_id |-> id, method |-> "GET"], out)

UpdateAccount ==
    \E id \in PathIds, b \in Bodies :
        \E out \in {update_account(db, today, id, b)} :
            Exchange([json |-> b, account_id |-> id, method |-> "PUT"], out)

DeleteAccount ==
    \E id \in PathIds :
        \E out \in {delete_account(db, id)} :
            Exchange([account_id |-> id, method |-> "DELETE"], out)

Next ==
    \/ CreateAccounts
    \/ ListAccounts
    \/ GetAccount
    \/ UpdateAccount
    \/ DeleteAccount

Spec == Init /\ [][Next]_vars

----------------------------------------------------------------------------
(* Concurrent clients: each request thread runs its handler one store      *)
(* operation at a time (find, create, update, delete), and the store        *)
(* operations of several requests interleave.  No handler locks a row.     *)

\* the bodies the concurrent clients send: valid ones
ConcBodies == {JsonObject(p) : p \in People}

\* the request req is answered with resp
Answer(req, resp) ==
    /\ request' = req
    /\ response' = resp
    /\ posted' = Posted(req, resp)
    /\ shown' = Shown(req, resp)
    /\ deleted' = Deleted(req, resp)
    /\ UNCHANGED before

\* POST /accounts: Account.create() is its only store operation
ConcCreate(c) ==
    /\ inflight[c].pc = "idle"
    /\ \E req \in {[headers |-> ContentType(JSON), json |-> JsonObject(Ann), method |-> "POST"]} :
         \E out \in {create_accounts(db, today, req)} :
           /\ out.db.seq <= MaxAccounts
           /\ db' = out.db
           /\ Answer(req, out.response)
           /\ UNCHANGED inflight

\* PUT /accounts/<account_id>: Account.find(), answered at once when it misses
ConcUpdateFind(c) ==
    /\ inflight[c].pc = "idle"
    /\ \E id \in PathIds, b \in ConcBodies :
         \E req \in {[json |-> b, account_id |-> id, method |-> "PUT"]} :
           \E f \in {update_account_find(db, id)} :
             /\ IF f.found
                THEN /\ inflight' = [inflight EXCEPT ![c] =
                                       [request |-> req, account |-> f.account, pc |-> "update_found"]]
                     /\ UNCHANGED <<request, response, before, posted, shown, deleted>>
                ELSE /\ Answer(req, f.response)
                     /\ UNCHANGED inflight
             /\ UNCHANGED db

\* PUT /accounts/<account_id>: deserialize and account.update()
ConcUpdateSave(c) ==
    /\ inflight[c].pc = "update_found"
    /\ \E req \in {inflight[c].request} :
         \E out \in {update_account_save(db, inflight[c].account, req.json, today)} :
           /\ db' = out.db
           /\ Answer(req, out.response)
           /\ inflight' = [inflight EXCEPT ![c] = Idle]

\* DELETE /accounts/<account_id>: Account.find(), answered at once when it misses
ConcDeleteFind(c) ==
    /\ inflight[c].pc = "idle"
    /\ \E id \in PathIds :
         \E req \in {[account_id |-> id, method |-> "DELETE"]} :
           \E f \in {delete_account_find(db, id)} :
             /\ IF f.found
                THEN /\ inflight' = [inflight EXCEPT ![c] =
                                       [request |-> req, account |-> f.account, pc |-> "delete_found"]]
                     /\ UNCHANGED <<request, response, before, posted, shown, deleted>>
                ELSE /\ Answer(req, f.response)
                     /\ UNCHANGED inflight
             /\ UNCHANGED db

\* DELETE /accounts/<account_id>: account.delete()
ConcDeleteDelete(c) ==
    /\ inflight[c].pc = "delete_found"
    /\ \E req \in {inflight[c].request} :
         \E out \in {delete_account_delete(db, inflight[c].account)} :
           /\ db' = out.db
           /\ Answer(req, out.response)
           /\ inflight' = [inflight EXCEPT ![c] = Idle]

NextConc ==
    \E c \in Clients :
        \/ ConcCreate(c)
        \/ ConcUpdateFind(c)
        \/ ConcUpdateSave(c)
        \/ ConcDeleteFind(c)
        \/ ConcDeleteDelete(c)

SpecConc == Init /\ [][NextConc]_vars

----------------------------------------------------------------------------
(* The properties of the service.                                          *)

\* the request carries Content-Type: application/json, exactly
ExactJson(req) ==
    /\ "Content-Type" \in DOMAIN req.headers
    /\ req.headers["Content-Type"] = "application/json"

\* the body is no object, or lacks a required field
LacksRequired(data) ==
    \/ data.type # "object"
    \/ \E f \in {"name", "email", "address", "phone_number"} : f \notin DOMAIN data.members

\* "2024-02-28", the text of today's date
TodayText == <<"2", "0", "2", "4", "-", "0", "2", "-", "2", "8">>

\* the serialized Account that the submitted members and the id make
Submitted(members, id) ==
    [id |-> id,
     name |-> members["name"],
     email |-> members["email"],
     address |-> members["address"],
     phone_number |-> members["phone_number"],
     date_joined |-> IF "date_joined" \in DOMAIN members THEN members["date_joined"] ELSE TodayText]

\* the posted ids no DELETE named since, in the order they were posted
Alive == SelectSeq(posted, LAMBDA i : i \notin deleted)

\* a POST that creates an Account and answers 201
ProbeCreate(store) ==
    create_accounts(store, today, [headers |-> ContentType(JSON),
                                   json |-> JsonObject(Ann),
                                   method |-> "POST"]).response

\* C1 (create-then-read): a POST with Content-Type application/json and a
\* valid body answers 201 with the submitted field values under the id the
\* store assigned, and a GET of that id issued next answers 200 with the body
\* of the POST response.
C1_CreateThenRead ==
    /\ (request.method = "POST" /\ ExactJson(request) /\ IsValidBody(request.json))
         => /\ response.status = 201
            /\ response.body["id"] = db.seq
            /\ response.body["id"] \in Ids(db)
            /\ response.body = Submitted(request.json.members, response.body["id"])
    /\ (before = "created" /\ request.method = "GET")
         => /\ response.status = 200
            /\ response.body = shown[request.account_id]

C1_Witness ==
    /\ before = "created"
    /\ request.method = "GET"
    /\ response.status = 200
    /\ response.body = shown[request.account_id]
    /\ response.body["date_joined"] = NewYearsEve

\* C2 (list completeness): in every state GET /accounts answers 200 with one
\* entry per stored Account, each the body last answered for that Account, in
\* the order the Accounts were created; N creations on the empty store give N
\* entries, none gives the empty array.
C2_ListComplete ==
    LET out == list_accounts(db).response IN
    /\ out.status = 200
    /\ Len(out.body) = Len(Alive)
    /\ Len(out.body) = Cardinality(Ids(db))
    /\ \A i \in 1..Len(Alive) : out.body[i] = shown[Alive[i]]
    /\ deleted = {} => Len(out.body) = Len(posted)
    /\ posted = <<>> => out.body = <<>>
    /\ request.method = "LIST" => response = out

C2_Witness ==
    /\ request.method = "LIST"
    /\ response.status = 200
    /\ Len(response.body) = 2
    /\ response.body[1]["id"] = posted[1]
    /\ response.body[2]["id"] = posted[2]

\* C3 (update replaces fully): a PUT of a stored id with a valid body answers
\* 200 with the Account made of the new name, email, address, phone_number
\* and date_joined under the same id, and a GET of that id issued next
\* answers that same body.
C3_UpdateReplaces ==
    /\ (request.method = "PUT" /\ IsValidBody(request.json)
          /\ request.account_id \in Range(posted) \ deleted)
         => /\ response.status = 200
            /\ response.body = Submitted(request.json.members, request.account_id)
    /\ (before = "updated" /\ request.method = "GET")
         => /\ response.status = 200
            /\ response.body = shown[request.account_id]

C3_Witness ==
    /\ before = "updated"
    /\ request.method = "GET"
    /\ response.status = 200
    /\ response.body = Submitted(With(Ann, "date_joined", NewYearsEve), 2)

\* C4 (update on a missing id): a PUT of an id that is not stored answers 404
\* whatever its body, and leaves the store as it was.
C4_UpdateMissing ==
    [][(request'.method = "PUT" /\ request'.account_id \notin Ids(db))
         => (response'.status = 404 /\ db' = db)]_vars

C4_Witness ==
    /\ request.method = "PUT"
    /\ response.status = 404
    /\ LacksRequired(request.json)
    /\ db.rows # <<>>

\* C5 (delete idempotence): a DELETE answers 204 with an empty body whether
\* the id is stored or not; the id is not stored afterwards, a DELETE of an
\* id that is not stored leaves the store as it was, and a GET of the id
\* issued next answers 404.
C5_DeleteIdempotent ==
    [][/\ request'.method = "DELETE"
            => /\ response'.status = 204
               /\ response'.body = ""
               /\ request'.account_id \notin Ids(db')
               /\ \A i \in Ids(db) \ {request'.account_id} : find(db', i) = find(db, i)
               /\ (request'.account_id \notin Ids(db) \/ before' = "deleted") => db' = db
       /\ (request.method = "DELETE" /\ request'.method = "GET"
             /\ request'.account_id = request.account_id)
            => response'.status = 404]_vars

C5_Witness ==
    /\ before = "deleted"
    /\ request.method = "DELETE"
    /\ request.account_id \in deleted
    /\ response.status = 204
    /\ db.rows # <<>>

\* C6 (media type gate): a POST whose Content-Type is missing or is not
\* exactly application/json answers 415, whether its body is valid or not,
\* and leaves the store as it was.
C6_MediaTypeGate ==
    [][(request'.method = "POST" /\ ~ExactJson(request'))
         => (response'.status = 415 /\ db' = db)]_vars

C6_Witness ==
    /\ request.method = "POST"
    /\ "Content-Type" \notin DOMAIN request.headers
    /\ IsValidBody(request.json)
    /\ response.status = 415

\* C7 (bad payload gate): a POST with Content-Type application/json whose
\* body is no object or lacks a required field answers 400; the rows, the
\* listing and the answer to the next successful create are what they were.
C7_BadPayloadGate ==
    [][(request'.method = "POST" /\ ExactJson(request') /\ LacksRequired(request'.json))
         => /\ response'.status = 400
            /\ db'.rows = db.rows
            /\ list_accounts(db').response = list_accounts(db).response
            /\ ProbeCreate(db') = ProbeCreate(db)]_vars

C7_Witness ==
    /\ request.method = "POST"
    /\ ExactJson(request)
    /\ request.json = JsonObject([name |-> "not enough data"])
    /\ response.status = 400
    /\ db.rows # <<>>

\* C8 (id uniqueness and non-reuse): the ids of the 201 responses are
\* pairwise distinct, deleted ones included; no two stored Accounts share an
\* id, and no stored Account has an id that was deleted.
C8_IdsUnique ==
    /\ \A i, j \in 1..Len(posted) : i # j => posted[i] # posted[j]
    /\ \A i, j \in 1..Len(db.rows) : i # j => db.rows[i]["id"] # db.rows[j]["id"]
    /\ Ids(db) \cap deleted = {}

C8_Witness ==
    /\ request.method = "POST"
    /\ response.status = 201
    /\ Len(posted) = 2
    /\ posted[1] \in deleted
    /\ "id" \in DOMAIN request.json.members

\* C9 as stated: a PUT with a valid body answers 200 or 404, as it does in
\* every serial order of the requests.
C9_SerialOutcomes ==
    request.method = "PUT" => response.status \in {200, 404}

\* C9 (amended): the store operations are atomic, a request is not.  A PUT
\* whose find misses answers 404 and leaves the store as it was.  A PUT whose
\* find hit answers 200 with the row replaced when the row is still stored at
\* its update; when a DELETE removed the row in between, it answers 500 and
\* leaves the store as the DELETE left it.
C9_RaceOutcomes ==
    [][/\ (\E c \in Clients : inflight[c].pc = "update_found" /\ inflight'[c].pc = "idle")
            => IF request'.account_id \notin deleted
               THEN /\ response'.status = 200
                    /\ response'.body = Submitted(request'.json.members, request'.account_id)
                    /\ find(db', request'.account_id) # <<>>
                    /\ serialize(find(db', request'.account_id)[1]) = response'.body
               ELSE /\ response'.status = 500
                    /\ db' = db
                    /\ find(db', request'.account_id) = <<>>
       /\ (inflight' = inflight /\ request'.method = "PUT")
            => /\ response'.status = 404
               /\ db' = db
               /\ find(db, request'.account_id) = <<>>]_vars

C9_Witness ==
    /\ request.method = "PUT"
    /\ response.status = 500
    /\ request.account_id \in deleted
    /\ db.rows # <<>>

\* C10 (a failed update changes nothing): a PUT of a stored id whose body is
\* no object or lacks a required field answers 400; GET of that id and GET
\* /accounts answer what they answered before the PUT, and a GET of the id
\* issued next answers the body last answered for it.
C10_FailedUpdateKeeps ==
    [][/\ (request'.method = "PUT" /\ request'.account_id \in Ids(db)
             /\ LacksRequired(request'.json))
            => /\ response'.status = 400
               /\ get_account(db', request'.account_id).response
                    = get_account(db, request'.account_id).response
               /\ list_accounts(db').response = list_accounts(db).response
       /\ (request.method = "PUT" /\ response.status = 400 /\ request'.method = "GET"
             /\ request'.account_id = request.account_id)
            => /\ response'.status = 200
               /\ response'.body = shown[request.account_id]]_vars

C10_Witness ==
    /\ before = "refused"
    /\ request.method = "GET"
    /\ response.status = 200
    /\ response.body = shown[request.account_id]
    /\ response.body["name"] = "Ann"

====
